---- MODULE Spec2Model ----
(* A model of go-higher-order-functions (higher-order-functions.go):       *)
(* the array operations, the parallel map pmapT, and the channel pipeline  *)
(* built from to_chan, mapchanT, filterchanT, removechanT and from_chan.   *)
(* Go slices are 0-indexed; the sequences below are 1-indexed, so Go index *)
(* i is position i + 1 here.                                               *)
EXTENDS Integers, Sequences, FiniteSets, TLC

\* ------------------------------------------------------------------ bounds
MaxLen == 3
MaxStages == 2
MaxOps == 2

\* Element values of type T (type T int): negative, even and odd values.
Vals == {-1, 2, 5}

RECURSIVE SeqsUpTo(_)
SeqsUpTo(n) == IF n = 0 THEN {<< >>}
               ELSE SeqsUpTo(n - 1) \cup [1..n -> Vals]

Datasets == SeqsUpTo(MaxLen)

\* main's dataset t
MainData == <<1, 2, 3, 4, 5, 6, 7, 8, 9, 10>>

\* the first half of main's dataset
HalfData == <<1, 2, 3, 4, 5>>

\* ------------------------------------------------- the function arguments
\* Go's % truncates toward zero: the remainder takes the sign of the dividend.
GoRem(a, b) == IF a >= 0 THEN a % b ELSE -((-a) % b)

\* The func(T) T arguments used by main: doubling; and a successor.
Fns == {"double", "inc"}
Apply(f, v) == IF f = "double" THEN v * 2 ELSE v + 1

\* The func(T) bool arguments used by main: i%2 == 0, i%2 != 0, i < 5.
Preds == {"even", "odd", "lt"}
Holds(p, v) == CASE p = "even" -> GoRem(v, 2) = 0
                 [] p = "odd"  -> GoRem(v, 2) # 0
                 [] p = "lt"   -> v < 5
                 [] OTHER      -> ~(v < 5)
\* the predicate func(i T) bool { return !p(i) }, by name ("ge" is !lt)
NotPred(p) == CASE p = "even" -> "odd"
                [] p = "odd"  -> "even"
                [] p = "lt"   -> "ge"
                [] OTHER      -> "lt"

\* ------------------------------------------------------- array operations
\* (seeded fault) reverse copies to out[i]
reverse_PlainCopy(in) == [j \in 1..Len(in) |-> in[j]]

\* reverse: out[(l-1)-i] = v for every i, v of in
reverse(in) == [j \in 1..Len(in) |-> in[(Len(in) - 1) - (j - 1) + 1]]

\* mapT: to[i] = f(v) for every i, v of from
mapT(f, from) == [i \in 1..Len(from) |-> Apply(f, from[i])]

\* (seeded fault) filterT puts each kept element in front of to
RECURSIVE filterLoop_Prepend(_, _, _, _)
filterLoop_Prepend(f, from, i, to) ==
    IF i > Len(from) THEN to
    ELSE filterLoop_Prepend(f, from, i + 1,
                            IF Holds(f, from[i]) THEN <<from[i]>> \o to ELSE to)
filterT_Prepend(f, from) == filterLoop_Prepend(f, from, 1, << >>)

RECURSIVE filterLoop(_, _, _, _)
filterLoop(f, from, i, to) ==
    IF i > Len(from) THEN to
    ELSE filterLoop(f, from, i + 1,
                    IF Holds(f, from[i]) THEN Append(to, from[i]) ELSE to)
filterT(f, from) == filterLoop(f, from, 1, << >>)

RECURSIVE removeLoop(_, _, _, _)
removeLoop(f, from, i, to) ==
    IF i > Len(from) THEN to
    ELSE removeLoop(f, from, i + 1,
                    IF ~Holds(f, from[i]) THEN Append(to, from[i]) ELSE to)
\* (seeded fault) removeT tests f(n) instead of !f(n)
removeT_NotNegated(f, from) == filterLoop(f, from, 1, << >>)

removeT(f, from) == removeLoop(f, from, 1, << >>)

RECURSIVE takeLoop(_, _, _, _)
takeLoop(n, from, i, to) ==
    IF i > Len(from) THEN to
    ELSE IF n <= 0 THEN to
    ELSE takeLoop(n - 1, from, i + 1, Append(to, from[i]))
take(n, from) == takeLoop(n, from, 1, << >>)

RECURSIVE dropLoop(_, _, _, _)
dropLoop(n, from, i, to) ==
    IF i > Len(from) THEN to
    ELSE IF n > 0 THEN dropLoop(n - 1, from, i + 1, to)
    ELSE dropLoop(n, from, i + 1, Append(to, from[i]))
\* (seeded fault) drop tests n >= 0 and skips one element too many
drop_SkipsOneMore(n, from) == dropLoop(n + 1, from, 1, << >>)

drop(n, from) == dropLoop(n, from, 1, << >>)

\* the func(T, T) T arguments used by main: x + y, x - y, x * y
FoldFns == {"add", "sub", "mul"}
Apply2(f, x, y) == CASE f = "add" -> x + y
                     [] f = "sub" -> x - y
                     [] OTHER     -> x * y

\* foldl f z [] = z;  foldl f z (x:xs) = foldl f (f z x) xs
RECURSIVE foldlT(_, _, _)
foldlT(f, z, xs) == IF Len(xs) = 0 THEN z
                    ELSE foldlT(f, Apply2(f, z, Head(xs)), Tail(xs))

\* (seeded fault) foldrT passes the accumulator first, as foldlT does
RECURSIVE foldrT_AccFirst(_, _, _)
foldrT_AccFirst(f, z, xs) == IF Len(xs) = 0 THEN z
                             ELSE Apply2(f, foldrT_AccFirst(f, z, Tail(xs)), Head(xs))

\* foldr f z [] = z;  foldr f z (x:xs) = f x (foldr f z xs)
RECURSIVE foldrT(_, _, _)
foldrT(f, z, xs) == IF Len(xs) = 0 THEN z
                    ELSE Apply2(f, Head(xs), foldrT(f, z, Tail(xs)))

\* ------------------------------------------------------------------ state
VARIABLES
    \* pmapT
    pm_pc,      \* the caller's position: "idle", "spawn", "wait", "done"
    pm_f,       \* the argument f
    pm_from,    \* the argument from
    pm_to,      \* the result slice to
    pm_wg,      \* the WaitGroup counter
    pm_i,       \* the range loop's next position
    pm_w,       \* position of each worker goroutine
    pm_arg,     \* the (i, v) each worker goroutine was started with
    pm_ret,     \* the slice returned to the caller
    pm_writes   \* pm_writes[i]: the workers that have assigned to[i], in order

pmvars == <<pm_pc, pm_f, pm_from, pm_to, pm_wg, pm_i, pm_w, pm_arg, pm_ret, pm_writes>>

VARIABLES
    \* the channel pipeline: to_chan(t), then stages, then from_chan
    s,          \* the dataset handed to to_chan
    main_pc,    \* the caller's position: "idle", "build", "drain", "returned"
    stages,     \* the stages chained so far: [kind, fn] each
    g_pc,       \* position of goroutine k: 0 is to_chan's, k >= 1 is stage k's
    to_i,       \* to_chan's range loop position
    held,       \* the value stage k is sending (f(i) or n)
    closed,     \* closed[k]: channel k (the output of goroutine k) is closed
    hist,       \* hist[k]: the values handed over on channel k so far
    out,        \* from_chan's local slice out
    rets,       \* the slices returned by the from_chan calls so far
    panicked    \* a close of a closed channel or a send on one happened

pipevars == <<s, main_pc, stages, g_pc, to_i, held, closed, hist, out, rets, panicked>>

VARIABLES
    \* the array operations, called one after another on the latest array
    sq_op,      \* the operation called last ("none" before the first call)
    sq_arg,     \* its function, predicate or count argument
    sq_z,       \* the start value of a fold
    sq_from,    \* its array argument
    sq_to,      \* the latest array: the dataset, then each returned slice
    sq_acc,     \* the value returned by the last fold
    sq_calls    \* the number of calls made

sqvars == <<sq_op, sq_arg, sq_z, sq_from, sq_to, sq_acc, sq_calls>>

vars == <<pmvars, pipevars, sqvars>>

\* the state of a part of the program that is not running
PmIdle ==
    /\ pm_pc = "idle" /\ pm_f = "double" /\ pm_from = << >> /\ pm_to = << >>
    /\ pm_wg = 0 /\ pm_i = 1 /\ pm_w = << >> /\ pm_arg = << >> /\ pm_ret = << >>
    /\ pm_writes = << >>

PipeIdle ==
    /\ s = << >> /\ main_pc = "idle" /\ stages = << >> /\ g_pc = << >>
    /\ to_i = 1 /\ held = << >> /\ closed = << >> /\ hist = << >>
    /\ out = << >> /\ rets = << >> /\ panicked = FALSE

SqIdle ==
    /\ sq_op = "idle" /\ sq_arg = 0 /\ sq_z = 0 /\ sq_from = << >>
    /\ sq_to = << >> /\ sq_acc = 0 /\ sq_calls = 0

\* ------------------------------------------------- the array operations
\* main's dataset t, before any call
SeqInit ==
    /\ sq_to \in Datasets \cup {HalfData}
    /\ sq_op = "none" /\ sq_arg = 0 /\ sq_z = 0 /\ sq_from = << >>
    /\ sq_acc = 0 /\ sq_calls = 0
    /\ PmIdle
    /\ PipeIdle

\* a call op(arg, sq_to) returning the slice res
SeqCall(op, arg, res) ==
    /\ sq_op # "idle"
    /\ sq_calls < MaxOps
    /\ sq_op' = op
    /\ sq_arg' = arg
    /\ sq_from' = sq_to
    /\ sq_to' = res
    /\ sq_calls' = sq_calls + 1
    /\ UNCHANGED <<sq_z, sq_acc, pmvars, pipevars>>

\* a call op(f, z, sq_to) returning the value res
FoldCall(op, f, z, res) ==
    /\ sq_op # "idle"
    /\ sq_calls < MaxOps
    /\ sq_op' = op
    /\ sq_arg' = f
    /\ sq_z' = z
    /\ sq_from' = sq_to
    /\ sq_acc' = res
    /\ sq_calls' = sq_calls + 1
    /\ UNCHANGED <<sq_to, pmvars, pipevars>>

Counts == -1..(MaxLen + 1)
Starts == {0, 1}

DoReverse == SeqCall("reverse", 0, reverse(sq_to))
DoMapT == \E f \in Fns : SeqCall("mapT", f, mapT(f, sq_to))
DoFilterT == \E p \in Preds : SeqCall("filterT", p, filterT(p, sq_to))
DoRemoveT == \E p \in Preds : SeqCall("removeT", p, removeT(p, sq_to))
DoTake == \E n \in Counts : SeqCall("take", n, take(n, sq_to))
DoDrop == \E n \in Counts : SeqCall("drop", n, drop(n, sq_to))
DoFoldlT == \E f \in FoldFns, z \in Starts : FoldCall("foldlT", f, z, foldlT(f, z, sq_to))
DoFoldrT == \E f \in FoldFns, z \in Starts : FoldCall("foldrT", f, z, foldrT(f, z, sq_to))

SeqNext == \/ DoReverse \/ DoMapT \/ DoFilterT \/ DoRemoveT
           \/ DoTake \/ DoDrop \/ DoFoldlT \/ DoFoldrT

SpecSeq == SeqInit /\ [][SeqNext]_vars

\* ----------------------------------------------------------- the pipeline
MaxCalls == 2
MaxPipeLen == 2

\* the datasets sent through a pipeline: the short ones, and main's
PipeDatasets == SeqsUpTo(MaxPipeLen) \cup {MainData}

StageKinds == {"map", "filter", "remove"}
StageSet == [kind : {"map"}, fn : Fns] \cup [kind : {"filter", "remove"}, fn : Preds]

NStages == Len(stages)
Last == NStages

\* (seeded fault) the loop stops one element early
ToChanAt_OffByOne(i) == IF i >= Len(s) THEN "close" ELSE "send"

\* to_chan's loop head: the next send, or close(out) after the last element
ToChanAt(i) == IF i > Len(s) THEN "close" ELSE "send"

\* The state when to_chan(t) has returned: channel 0 is open and its
\* goroutine is started.
PipeInit ==
    /\ s \in PipeDatasets
    /\ main_pc = "build"
    /\ stages = << >>
    /\ to_i = 1
    /\ g_pc = (0 :> ToChanAt(1))
    /\ held = (0 :> 0)
    /\ closed = (0 :> FALSE)
    /\ hist = (0 :> << >>)
    /\ out = << >>
    /\ rets = << >>
    /\ panicked = FALSE
    /\ PmIdle
    /\ SqIdle

\* mapchanT / filterchanT / removechanT called on the last channel:
\* to := make(chan T); go func() {...}(); return to
AddStage(st) ==
    /\ main_pc = "build"
    /\ NStages < MaxStages
    /\ stages' = Append(stages, st)
    /\ g_pc' = g_pc @@ (NStages + 1 :> "recv")
    /\ held' = held @@ (NStages + 1 :> 0)
    /\ closed' = closed @@ (NStages + 1 :> FALSE)
    /\ hist' = hist @@ (NStages + 1 :> << >>)
    /\ UNCHANGED <<s, main_pc, to_i, out, rets, panicked, pmvars, sqvars>>

\* the value goroutine k is blocked sending on channel k
Pending(k) == IF k = 0 THEN s[to_i] ELSE held[k]

\* (seeded fault) a stage goes back to its send after a completed send
AfterSend_Resend(k) == IF k = 0 THEN ToChanAt(to_i + 1) ELSE "send"

\* where goroutine k continues after its send completed
AfterSend(k) == IF k = 0 THEN ToChanAt(to_i + 1) ELSE "recv"

\* (seeded fault) filterchanT sends every element, without testing f(n)
StageEmits_FilterUntested(st, v) == CASE st.kind = "map"    -> TRUE
                                      [] st.kind = "filter" -> TRUE
                                      [] OTHER              -> ~Holds(st.fn, v)

\* (seeded fault) removechanT tests f(n) instead of !f(n)
StageEmits_RemoveNotNegated(st, v) == CASE st.kind = "map" -> TRUE
                                        [] OTHER           -> Holds(st.fn, v)

\* whether a stage sends anything for the element v it received
StageEmits(st, v) == CASE st.kind = "map"    -> TRUE
                       [] st.kind = "filter" -> Holds(st.fn, v)
                       [] OTHER              -> ~Holds(st.fn, v)

\* (seeded fault) mapchanT sends i instead of f(i)
StageOutput_NoApply(st, v) == v

\* what a stage sends for the element v it received
StageOutput(st, v) == IF st.kind = "map" THEN Apply(st.fn, v) ELSE v

\* the completed send of goroutine k on channel k, seen from the sender
SendDone(k) ==
    /\ to_i' = IF k = 0 THEN to_i + 1 ELSE to_i
    /\ hist' = [hist EXCEPT ![k] = Append(@, Pending(k))]

\* (seeded fault) the stage sends with select/default: with no receiver
\* waiting on its output the element is dropped
StageRecv_NonBlockingSend(k) ==
    /\ g_pc[k] = "recv"
    /\ g_pc[k - 1] = "send"
    /\ LET v == Pending(k - 1)
           ready == IF k = NStages THEN main_pc = "drain" ELSE g_pc[k + 1] = "recv"
           keep == StageEmits(stages[k], v) /\ ready
       IN /\ g_pc' = [g_pc EXCEPT ![k - 1] = AfterSend(k - 1),
                                  ![k] = IF keep THEN "send" ELSE "recv"]
          /\ held' = [held EXCEPT ![k] = IF keep THEN StageOutput(stages[k], v) ELSE @]
          /\ panicked' = (panicked \/ (keep /\ closed[k]))
    /\ SendDone(k - 1)
    /\ UNCHANGED <<s, main_pc, stages, closed, out, rets, pmvars, sqvars>>

\* stage k receives from channel k-1 (the unbuffered handoff completes the
\* blocked send of goroutine k-1), then applies f and reaches its own send
StageRecv(k) ==
    /\ g_pc[k] = "recv"
    /\ g_pc[k - 1] = "send"
    /\ LET v == Pending(k - 1)
           keep == StageEmits(stages[k], v)
       IN /\ g_pc' = [g_pc EXCEPT ![k - 1] = AfterSend(k - 1),
                                  ![k] = IF keep THEN "send" ELSE "recv"]
          /\ held' = [held EXCEPT ![k] = IF keep THEN StageOutput(stages[k], v) ELSE @]
          /\ panicked' = (panicked \/ (keep /\ closed[k]))
    /\ SendDone(k - 1)
    /\ UNCHANGED <<s, main_pc, stages, closed, out, rets, pmvars, sqvars>>

\* stage k's receive finds channel k-1 closed: e == false / the range ends
StageSeeClosed(k) ==
    /\ g_pc[k] = "recv"
    /\ closed[k - 1]
    /\ g_pc[k - 1] # "send"
    /\ g_pc' = [g_pc EXCEPT ![k] = "closing"]
    /\ UNCHANGED <<s, main_pc, stages, to_i, held, closed, hist, out, rets, panicked, pmvars, sqvars>>

\* (seeded fault) the goroutine ends without close(to)
CloseChan_Forgotten(k) == UNCHANGED <<closed, panicked>>

\* close(to) by goroutine k; closing a closed channel panics
CloseChan(k) ==
    /\ closed' = [closed EXCEPT ![k] = TRUE]
    /\ panicked' = (panicked \/ closed[k])

\* (seeded fault) no break after close(to): the stage loops to its receive
StageClose_NoBreak(k) ==
    /\ g_pc[k] = "closing"
    /\ CloseChan(k)
    /\ g_pc' = [g_pc EXCEPT ![k] = "recv"]
    /\ UNCHANGED <<s, main_pc, stages, to_i, held, hist, out, rets, pmvars, sqvars>>

\* (seeded fault) the stage closes its input, from, instead of to
StageClose_ClosesInput(k) ==
    /\ g_pc[k] = "closing"
    /\ CloseChan(k - 1)
    /\ g_pc' = [g_pc EXCEPT ![k] = "done"]
    /\ UNCHANGED <<s, main_pc, stages, to_i, held, hist, out, rets, pmvars, sqvars>>

\* stage k closes its output and ends
StageClose(k) ==
    /\ g_pc[k] = "closing"
    /\ CloseChan(k)
    /\ g_pc' = [g_pc EXCEPT ![k] = "done"]
    /\ UNCHANGED <<s, main_pc, stages, to_i, held, hist, out, rets, pmvars, sqvars>>

\* to_chan's goroutine: close(out) after the range loop
ToChanClose ==
    /\ main_pc # "idle"
    /\ g_pc[0] = "close"
    /\ CloseChan(0)
    /\ g_pc' = [g_pc EXCEPT ![0] = "done"]
    /\ UNCHANGED <<s, main_pc, stages, to_i, held, hist, out, rets, pmvars, sqvars>>

\* (seeded fault) out is not a fresh slice at each call
FromChanCall_StaleOut ==
    /\ main_pc \in {"build", "returned"}
    /\ Len(rets) < MaxCalls
    /\ main_pc' = "drain"
    /\ UNCHANGED <<s, stages, g_pc, to_i, held, closed, hist, out, rets, panicked, pmvars, sqvars>>

\* from_chan(in) called on the last channel: out := make([]T, 0)
FromChanCall ==
    /\ main_pc \in {"build", "returned"}
    /\ Len(rets) < MaxCalls
    /\ main_pc' = "drain"
    /\ out' = << >>
    /\ UNCHANGED <<s, stages, g_pc, to_i, held, closed, hist, rets, panicked, pmvars, sqvars>>

\* (seeded fault) from_chan puts each element in front of out
FromChanRecv_Prepend ==
    /\ main_pc = "drain"
    /\ g_pc[Last] = "send"
    /\ out' = <<Pending(Last)>> \o out
    /\ g_pc' = [g_pc EXCEPT ![Last] = AfterSend(Last)]
    /\ SendDone(Last)
    /\ UNCHANGED <<s, main_pc, stages, held, closed, rets, panicked, pmvars, sqvars>>

\* from_chan: one iteration of for n := range in: out = append(out, n)
FromChanRecv ==
    /\ main_pc = "drain"
    /\ g_pc[Last] = "send"
    /\ out' = Append(out, Pending(Last))
    /\ g_pc' = [g_pc EXCEPT ![Last] = AfterSend(Last)]
    /\ SendDone(Last)
    /\ UNCHANGED <<s, main_pc, stages, held, closed, rets, panicked, pmvars, sqvars>>

\* from_chan: the range ends on the closed channel; return out
FromChanReturn ==
    /\ main_pc = "drain"
    /\ closed[Last]
    /\ g_pc[Last] # "send"
    /\ main_pc' = "returned"
    /\ rets' = Append(rets, out)
    /\ UNCHANGED <<s, stages, g_pc, to_i, held, closed, hist, out, panicked, pmvars, sqvars>>

MainStep == (\E st \in StageSet : AddStage(st)) \/ FromChanCall \/ FromChanRecv \/ FromChanReturn
StageStep(k) == StageRecv(k) \/ StageSeeClosed(k) \/ StageClose(k)

PipeNext ==
    \/ \E st \in StageSet : AddStage(st)
    \/ FromChanCall
    \/ FromChanRecv
    \/ FromChanReturn
    \/ ToChanClose
    \/ \E k \in 1..NStages : StageRecv(k)
    \/ \E k \in 1..NStages : StageSeeClosed(k)
    \/ \E k \in 1..NStages : StageClose(k)

SpecPipe == PipeInit /\ [][PipeNext]_vars

\* The pipelines whose termination is checked: the datasets over two values,
\* one that an even/odd predicate keeps and one that it drops.
LiveVals == {-1, 2}
FairInit == PipeInit /\ \A i \in 1..Len(s) : s[i] \in LiveVals

\* Go's scheduler runs every goroutine that can take a step.
FairPipe == /\ FairInit
            /\ [][PipeNext]_vars
            /\ WF_vars(MainStep)
            /\ WF_vars(ToChanClose)
            /\ \A k \in 1..MaxStages : WF_vars(k <= NStages /\ StageStep(k))

\* ------------------------------------------------------------------ pmapT
\* (seeded fault) wg.Add(N + 1)
PmapInit_AddOneTooMany ==
    /\ pm_f \in Fns
    /\ pm_from \in Datasets
    /\ pm_pc = "spawn"
    /\ pm_to = [i \in 1..Len(pm_from) |-> 0]
    /\ pm_wg = Len(pm_from) + 1
    /\ pm_i = 1
    /\ pm_w = [i \in 1..Len(pm_from) |-> "idle"]
    /\ pm_arg = [i \in 1..Len(pm_from) |-> [i |-> 0, v |-> 0]]
    /\ pm_ret = << >>
    /\ pm_writes = [i \in 1..Len(pm_from) |-> << >>]
    /\ PipeIdle
    /\ SqIdle

\* N := len(from); to := make([]T, N); wg.Add(N)
PmapInit ==
    /\ pm_f \in Fns
    /\ pm_from \in Datasets
    /\ pm_pc = "spawn"
    /\ pm_to = [i \in 1..Len(pm_from) |-> 0]
    /\ pm_wg = Len(pm_from)
    /\ pm_i = 1
    /\ pm_w = [i \in 1..Len(pm_from) |-> "idle"]
    /\ pm_arg = [i \in 1..Len(pm_from) |-> [i |-> 0, v |-> 0]]
    /\ pm_ret = << >>
    /\ pm_writes = [i \in 1..Len(pm_from) |-> << >>]
    /\ PipeIdle
    /\ SqIdle

\* (seeded fault) every goroutine is started with the first index
PmapSpawn_FirstIndex ==
    /\ pm_pc = "spawn"
    /\ pm_i <= Len(pm_from)
    /\ pm_w' = [pm_w EXCEPT ![pm_i] = "run"]
    /\ pm_arg' = [pm_arg EXCEPT ![pm_i] = [i |-> 1, v |-> pm_from[pm_i]]]
    /\ pm_i' = pm_i + 1
    /\ UNCHANGED <<pm_pc, pm_f, pm_from, pm_to, pm_wg, pm_ret, pm_writes, pipevars, sqvars>>

\* one iteration of the range loop: go func(i, v) {...}(i, v)
PmapSpawn ==
    /\ pm_pc = "spawn"
    /\ pm_i <= Len(pm_from)
    /\ pm_w' = [pm_w EXCEPT ![pm_i] = "run"]
    /\ pm_arg' = [pm_arg EXCEPT ![pm_i] = [i |-> pm_i, v |-> pm_from[pm_i]]]
    /\ pm_i' = pm_i + 1
    /\ UNCHANGED <<pm_pc, pm_f, pm_from, pm_to, pm_wg, pm_ret, pm_writes, pipevars, sqvars>>

\* the range loop ends; the caller reaches wg.Wait()
PmapLoopEnd ==
    /\ pm_pc = "spawn"
    /\ pm_i > Len(pm_from)
    /\ pm_pc' = "wait"
    /\ UNCHANGED <<pm_f, pm_from, pm_to, pm_wg, pm_i, pm_w, pm_arg, pm_ret, pm_writes, pipevars, sqvars>>

\* (seeded fault) the closure reads the loop variable i instead of its own
\* argument: every worker writes the index the loop reached last
PmapWorkerWrite_SharedLoopVar(w) ==
    /\ pm_w[w] = "run"
    /\ pm_to' = [pm_to EXCEPT ![pm_i - 1] = Apply(pm_f, pm_arg[w].v)]
    /\ pm_writes' = [pm_writes EXCEPT ![pm_i - 1] = Append(@, w)]
    /\ pm_w' = [pm_w EXCEPT ![w] = "wrote"]
    /\ UNCHANGED <<pm_pc, pm_f, pm_from, pm_wg, pm_i, pm_arg, pm_ret, pipevars, sqvars>>

\* worker body: to[i] = f(v)
PmapWorkerWrite(w) ==
    /\ pm_w[w] = "run"
    /\ pm_to' = [pm_to EXCEPT ![pm_arg[w].i] = Apply(pm_f, pm_arg[w].v)]
    /\ pm_writes' = [pm_writes EXCEPT ![pm_arg[w].i] = Append(@, w)]
    /\ pm_w' = [pm_w EXCEPT ![w] = "wrote"]
    /\ UNCHANGED <<pm_pc, pm_f, pm_from, pm_wg, pm_i, pm_arg, pm_ret, pipevars, sqvars>>

\* worker exit: the deferred wg.Done()
PmapWorkerDone(w) ==
    /\ pm_w[w] = "wrote"
    /\ pm_wg' = pm_wg - 1
    /\ pm_w' = [pm_w EXCEPT ![w] = "done"]
    /\ UNCHANGED <<pm_pc, pm_f, pm_from, pm_to, pm_i, pm_arg, pm_ret, pm_writes, pipevars, sqvars>>

\* (seeded fault) no wg.Wait() before the return
PmapWaitGuard_NoWait == TRUE

\* wg.Wait() unblocks when the counter is zero; return to
PmapWaitGuard == pm_wg = 0
PmapWait ==
    /\ pm_pc = "wait"
    /\ PmapWaitGuard
    /\ pm_pc' = "done"
    /\ pm_ret' = pm_to
    /\ UNCHANGED <<pm_f, pm_from, pm_to, pm_wg, pm_i, pm_w, pm_arg, pm_writes, pipevars, sqvars>>

PmapNext ==
    \/ PmapSpawn
    \/ PmapLoopEnd
    \/ \E w \in 1..Len(pm_from) : PmapWorkerWrite(w)
    \/ \E w \in 1..Len(pm_from) : PmapWorkerDone(w)
    \/ PmapWait

SpecPmap == PmapInit /\ [][PmapNext]_vars

\* ------------------------------------------------------ the whole program
\* main runs the array operations, pmapT and the channel pipelines.
Init == SeqInit \/ PmapInit \/ PipeInit
Next == SeqNext \/ PmapNext \/ PipeNext
Spec == Init /\ [][Next]_vars

\* ------------------------------------------------------------- the claims
\* the elements of a differ somewhere, so that order and index matter
Mixed(a) == Len(a) >= 2 /\ a[1] # a[2]

\* C1: whatever the interleaving of the worker goroutines, the slice pmapT
\* returns has the length of from and holds f(from[i]) at every index i:
\* it is index-wise the slice mapT(f, from).
C1_PmapEqualsMap ==
    pm_pc = "done" =>
        /\ Len(pm_ret) = Len(pm_from)
        /\ \A i \in 1..Len(pm_from) : pm_ret[i] = Apply(pm_f, pm_from[i])
        /\ pm_ret = mapT(pm_f, pm_from)

C1_Witness == pm_pc = "done" /\ Mixed(pm_from) /\ Len(pm_from) = MaxLen

\* C2: pmapT has returned only if every worker has written its result and
\* called wg.Done(): the returned slice is never partially populated.
C2_ReturnAfterAllWorkers ==
    pm_pc = "done" =>
        /\ \A w \in 1..Len(pm_from) : pm_w[w] = "done"
        /\ pm_wg = 0
        /\ pm_ret = pm_to

C2_Witness == pm_pc = "done" /\ Len(pm_from) >= 2 /\ pm_wg = 0

\* the first from_chan call has returned and the chain is the one stage st
Drained(kind) == Len(rets) >= 1 /\ NStages = 1 /\ stages[1].kind = kind

\* C3: from_chan(mapchanT(f, to_chan(s))) returns mapT(f, s), whatever the
\* interleaving of to_chan's goroutine, the stage and the caller.
C3_MapChanEqualsMap ==
    Drained("map") => rets[1] = mapT(stages[1].fn, s)

C3_Witness == Drained("map") /\ Mixed(s) /\ rets[1] # s

\* C4: from_chan(to_chan(s)) returns s, for the empty s too: every element
\* once, in order.
C4_RoundTrip ==
    (Len(rets) >= 1 /\ NStages = 0) => rets[1] = s

C4_Witness == Len(rets) >= 1 /\ NStages = 0 /\ Mixed(s) /\ Len(s) = MaxPipeLen

\* every goroutine of the pipeline has ended with its output closed, and
\* from_chan has returned
PipeFinished ==
    /\ Len(rets) >= 1
    /\ main_pc = "returned"
    /\ \A k \in 0..NStages : g_pc[k] = "done" /\ closed[k]

\* C5: under fair scheduling, for every dataset and every chain of stages,
\* to_chan's goroutine and every stage end with their output closed and
\* from_chan returns; until then some step is always possible (no deadlock).
C5_PipelineTerminates ==
    /\ <>PipeFinished
    /\ [](PipeFinished \/ ENABLED PipeNext)

C5_Witness == PipeFinished /\ NStages = MaxStages /\ Mixed(s)

\* the steps stage k may take, by the position it is at
StageLifecycle(k) ==
    \* OPEN is left only from the receive, on the closed input, to CLOSING
    /\ (g_pc[k] \in {"recv", "send"} /\ g_pc'[k] \notin {"recv", "send"}) =>
           (g_pc[k] = "recv" /\ closed[k - 1] /\ g_pc'[k] = "closing")
    \* CLOSING leads only to CLOSED, by closing the open output
    /\ g_pc[k] = "closing" =>
           (g_pc'[k] \in {"closing", "done"}
            /\ (g_pc'[k] = "done" => (~closed[k] /\ closed'[k])))
    \* the output is closed only on the step from CLOSING to CLOSED
    /\ (~closed[k] /\ closed'[k]) => (g_pc[k] = "closing" /\ g_pc'[k] = "done")
    \* CLOSED is terminal: no read of the input, no write or close on the output
    /\ g_pc[k] = "done" =>
           (g_pc'[k] = "done" /\ hist'[k - 1] = hist[k - 1] /\ hist'[k] = hist[k]
            /\ closed'[k] = closed[k] /\ held'[k] = held[k] /\ ~panicked')

\* C6: every stage goes OPEN -> CLOSING -> CLOSED: it leaves OPEN once, only
\* on observing its input closed, then closes its output, and once CLOSED
\* reads nothing more and neither writes nor closes its output.
C6_StageLifecycle == [][\A k \in 1..NStages : StageLifecycle(k)]_vars

C6_Witness ==
    \E k \in 1..NStages :
        g_pc[k] = "done" /\ closed[k] /\ Len(hist[k]) >= 2 /\ main_pc = "drain"

\* C7: from_chan(filterchanT(p, to_chan(s))) returns filterT(p, s): the
\* elements satisfying p, once each, in their order in s; with i%2 == 0 over
\* main's dataset 1..10 that is 2, 4, 6, 8, 10.
C7_FilterChanEqualsFilter ==
    Drained("filter") =>
        /\ rets[1] = filterT(stages[1].fn, s)
        /\ (s = MainData /\ stages[1].fn = "even") => rets[1] = <<2, 4, 6, 8, 10>>

C7_Witness ==
    Drained("filter") /\ s = MainData /\ stages[1].fn = "even" /\ Len(rets[1]) = 5

\* C8: from_chan(removechanT(p, to_chan(s))) returns removeT(p, s), which
\* is what filtering by the negated predicate gives: filterT(not p, s).
C8_RemoveChanEqualsRemove ==
    Drained("remove") =>
        /\ rets[1] = removeT(stages[1].fn, s)
        /\ rets[1] = filterT(NotPred(stages[1].fn), s)

C8_Witness ==
    Drained("remove") /\ Len(s) = MaxPipeLen /\ Len(rets[1]) \in 1..(MaxPipeLen - 1)

\* C9: once a stream is closed and drained by a from_chan call, a further
\* from_chan call on it returns, and returns the empty slice.
C9_SecondDrainEmpty ==
    /\ [](\A j \in 2..Len(rets) : rets[j] = << >>)
    /\ [](( main_pc = "drain" /\ Len(rets) >= 1) => <>(main_pc = "returned"))

C9_Witness == Len(rets) >= 2 /\ rets[1] # << >> /\ rets[2] = << >>

\* o is a in order with elements left out: the elements of o are elements
\* of a at increasing positions (i, j: the next positions of a and o)
RECURSIVE SubseqFrom(_, _, _, _)
SubseqFrom(o, a, i, j) ==
    IF j > Len(o) THEN TRUE
    ELSE IF i > Len(a) THEN FALSE
    ELSE IF o[j] = a[i] THEN SubseqFrom(o, a, i + 1, j + 1)
    ELSE SubseqFrom(o, a, i + 1, j)
InOrderOf(o, a) == SubseqFrom(o, a, 1, 1)

\* what the element v of the input becomes on the output of op
ImageOf(op, arg, v) == IF op \in {"mapT", "map"} THEN Apply(arg, v) ELSE v
ImagesOf(op, arg, a) == [i \in 1..Len(a) |-> ImageOf(op, arg, a[i])]

\* the output of the last array operation keeps the order of its input
SeqOrderKept(ops) ==
    sq_op \in ops => InOrderOf(sq_to, ImagesOf(sq_op, sq_arg, sq_from))

\* what stage k has sent keeps the order of what it has received
StageOrderKept ==
    \A k \in 1..NStages :
        InOrderOf(hist[k], ImagesOf(stages[k].kind, stages[k].fn, hist[k - 1]))

\* C10 as stated: the output of every array operation returning a slice,
\* reverse included, and of every stage has its elements in the order of
\* the corresponding elements of the input.
C10_OrderKept_AsStated ==
    /\ SeqOrderKept({"reverse", "mapT", "filterT", "removeT", "take", "drop"})
    /\ StageOrderKept

\* C10 (amended): the output of mapT, filterT, removeT, take and drop, and
\* of every stage (mapchanT, filterchanT, removechanT), has its elements in
\* the order of the corresponding elements of the input; reverse is the
\* exception.
C10_OrderKept ==
    /\ SeqOrderKept({"mapT", "filterT", "removeT", "take", "drop"})
    /\ StageOrderKept

C10_Witness ==
    /\ sq_op = "filterT"
    /\ Len(sq_from) = MaxLen
    /\ Len(sq_to) = MaxLen - 1
    /\ Mixed(sq_to)

\* C11: for 0 <= n <= len(s), take(n, s) followed by drop(n, s) is s; so
\* take(3, 1..10) is 1,2,3 and drop(3, 1..10) is 4..10.
C11_TakeDropSplit ==
    /\ (sq_op = "take" /\ 0 <= sq_arg /\ sq_arg <= Len(sq_from)) =>
           sq_to \o drop(sq_arg, sq_from) = sq_from
    /\ (sq_op = "drop" /\ 0 <= sq_arg /\ sq_arg <= Len(sq_from)) =>
           take(sq_arg, sq_from) \o sq_to = sq_from
    /\ (sq_op = "take" /\ sq_arg = 3 /\ sq_from = HalfData) => sq_to = <<1, 2, 3>>
    /\ (sq_op = "drop" /\ sq_arg = 3 /\ sq_from = HalfData) => sq_to = <<4, 5>>
    /\ take(3, MainData) = <<1, 2, 3>>
    /\ drop(3, MainData) = <<4, 5, 6, 7, 8, 9, 10>>

C11_Witness ==
    sq_op = "drop" /\ sq_arg = 3 /\ sq_from = HalfData /\ sq_to = <<4, 5>>

\* the elements of a at the positions in P, in order
RECURSIVE PickFrom(_, _, _)
PickFrom(a, P, i) ==
    IF i > Len(a) THEN << >>
    ELSE (IF i \in P THEN <<a[i]>> ELSE << >>) \o PickFrom(a, P, i + 1)

\* C12: filterT(p, s) and removeT(p, s) partition s: every index of s gives
\* its element to exactly one of them, each keeps the order of s, and their
\* lengths add up to len(s).
C12_FilterRemovePartition ==
    sq_op \in {"filterT", "removeT"} =>
        LET F == IF sq_op = "filterT" THEN sq_to ELSE filterT(sq_arg, sq_from)
            R == IF sq_op = "removeT" THEN sq_to ELSE removeT(sq_arg, sq_from)
            All == 1..Len(sq_from)
        IN /\ Len(F) + Len(R) = Len(sq_from)
           /\ \E P \in SUBSET All :
                  /\ F = PickFrom(sq_from, P, 1)
                  /\ R = PickFrom(sq_from, All \ P, 1)
                  /\ \A i \in All : (i \in P) <=> Holds(sq_arg, sq_from[i])

C12_Witness ==
    /\ sq_op = "removeT" /\ Len(sq_from) = MaxLen /\ Mixed(sq_from)
    /\ Len(sq_to) \in 1..(MaxLen - 1)

\* the left fold, from the last element down: f(foldl of the front, last)
RECURSIVE LeftNested(_, _, _, _)
LeftNested(f, z, xs, n) ==
    IF n = 0 THEN z ELSE Apply2(f, LeftNested(f, z, xs, n - 1), xs[n])

\* the right fold, accumulated from the last element: acc becomes f(xs[n], acc)
RECURSIVE RightNested(_, _, _, _)
RightNested(f, acc, xs, n) ==
    IF n = 0 THEN acc ELSE RightNested(f, Apply2(f, xs[n], acc), xs, n - 1)

\* C13: foldlT(f, z, s) is f(...f(f(z, s[0]), s[1])..., s[n-1]), accumulator
\* first; foldrT(f, z, s) is f(s[0], f(s[1], ... f(s[n-1], z))), element
\* first; both are z on the empty slice; with subtraction over 1..5 from 0
\* they give -15 and 3.
C13_FoldNesting ==
    /\ sq_op = "foldlT" =>
           /\ sq_acc = LeftNested(sq_arg, sq_z, sq_from, Len(sq_from))
           /\ sq_from = << >> => sq_acc = sq_z
           /\ (sq_arg = "sub" /\ sq_z = 0 /\ sq_from = HalfData) => sq_acc = -15
    /\ sq_op = "foldrT" =>
           /\ sq_acc = RightNested(sq_arg, sq_z, sq_from, Len(sq_from))
           /\ sq_from = << >> => sq_acc = sq_z
           /\ (sq_arg = "sub" /\ sq_z = 0 /\ sq_from = HalfData) => sq_acc = 3

C13_Witness ==
    sq_op = "foldrT" /\ sq_arg = "sub" /\ sq_z = 0 /\ sq_from = HalfData /\ sq_acc = 3

\* C14: reverse(s) has the length of s and holds s[len(s)-1-i] at index i,
\* and reverse(reverse(s)) is s.
C14_ReverseInvolution ==
    sq_op = "reverse" =>
        /\ Len(sq_to) = Len(sq_from)
        /\ \A i \in 0..(Len(sq_from) - 1) : sq_to[i + 1] = sq_from[(Len(sq_from) - 1 - i) + 1]
        /\ reverse(sq_to) = sq_from

C14_Witness == sq_op = "reverse" /\ Len(sq_from) = MaxLen /\ sq_from[1] # sq_from[MaxLen]

\* the workers started so far
Spawned == {w \in 1..Len(pm_from) : pm_w[w] # "idle"}

\* C15: pmapT over a slice of length N starts exactly N workers; worker i
\* assigns only to[i]; no index is assigned by two workers, and at the return
\* every index has been assigned exactly once.
C15_DisjointWrites ==
    /\ Cardinality(Spawned) = pm_i - 1
    /\ pm_pc \in {"wait", "done"} => Cardinality(Spawned) = Len(pm_from)
    /\ \A i \in 1..Len(pm_from) :
           /\ Len(pm_writes[i]) <= 1
           /\ \A j \in 1..Len(pm_writes[i]) : pm_writes[i][j] = i
           /\ pm_pc = "done" => pm_writes[i] = <<i>>

C15_Witness ==
    /\ pm_pc = "done" /\ Len(pm_from) = MaxLen
    /\ \A i \in 1..Len(pm_from) : pm_writes[i] = <<i>>

\* C17: for a slice of length 0, pmapT starts no worker, finds wg.Wait()
\* open, and returns the empty slice.
C17_EmptyPmap ==
    Len(pm_from) = 0 =>
        /\ pm_w = << >>
        /\ ~ENABLED PmapSpawn
        /\ pm_pc = "wait" => ENABLED PmapWait
        /\ pm_pc = "done" => pm_ret = << >>

C17_Witness == pm_pc = "done" /\ Len(pm_from) = 0 /\ pm_ret = << >>

\* what the stage st makes of the whole input a, by the array operations
StageResult(st, a) == CASE st.kind = "map"    -> mapT(st.fn, a)
                        [] st.kind = "filter" -> filterT(st.fn, a)
                        [] OTHER              -> removeT(st.fn, a)

\* everything channel k is to carry: s for channel 0, then stage by stage
RECURSIVE Expected(_)
Expected(k) == IF k = 0 THEN s ELSE StageResult(stages[k], Expected(k - 1))

IsPrefix(a, b) == Len(a) <= Len(b) /\ a = SubSeq(b, 1, Len(a))

\* the element stage k has received and not yet sent, if any
InHand(k) == IF g_pc[k] = "send" THEN <<held[k]>> ELSE << >>

\* C16: every stream is an unbuffered handoff between one producer and one
\* consumer: what has left the producer is exactly what its consumer has
\* taken, so no element rests in a stream, and a stage has in hand at most
\* one element, received and neither sent nor discarded.
C16_UnbufferedHandoff ==
    /\ hist[0] = SubSeq(s, 1, to_i - 1)
    /\ g_pc[0] = "send" => to_i <= Len(s)
    /\ \A k \in 1..NStages :
           StageResult(stages[k], hist[k - 1]) = hist[k] \o InHand(k)
    /\ Len(rets) = 0 => hist[Last] = out
    /\ Len(rets) >= 1 => hist[Last] = rets[1]

C16_Witness ==
    /\ NStages = MaxStages /\ main_pc = "drain" /\ Len(out) >= 1
    /\ \A k \in 0..NStages : g_pc[k] = "send"

\* C18: no stream is closed twice or sent on after its close (no panic), and
\* a stream is closed exactly when its own producer goroutine has ended.
C18_CloseDiscipline ==
    /\ ~panicked
    /\ \A k \in 0..NStages :
           /\ closed[k] <=> g_pc[k] = "done"
           /\ closed[k] => g_pc[k] \notin {"send", "close", "closing"}

C18_Witness ==
    NStages = MaxStages /\ \A k \in 0..NStages : closed[k] /\ Len(hist[k]) >= 1

\* the consumer of channel k is at its receive
ConsumerReady(k) == IF k = NStages THEN main_pc = "drain" ELSE g_pc[k + 1] = "recv"

\* C19: a goroutine with an element to emit whose consumer is not reading
\* stays blocked on that send with its output open, and a goroutine has
\* ended or closed its output only when everything it had to emit has been
\* received.
C19_BlockedUntilReceived ==
    /\ [](\A k \in 0..NStages :
             /\ (g_pc[k] = "done" \/ closed[k]) => hist[k] = Expected(k)
             /\ g_pc[k] = "send" => (~closed[k] /\ hist[k] # Expected(k)))
    /\ [][\A k \in 0..NStages :
             (g_pc[k] = "send" /\ ~ConsumerReady(k)) =>
                 (g_pc'[k] = "send" /\ ~closed'[k] /\ hist'[k] = hist[k]
                  /\ (IF k = 0 THEN to_i' = to_i ELSE held'[k] = held[k]))]_vars

C19_Witness ==
    /\ main_pc = "build" /\ NStages = MaxStages /\ Len(s) > NStages
    /\ \A k \in 0..NStages : g_pc[k] = "send" /\ ~closed[k] /\ ~ConsumerReady(k)

\* C20: what from_chan has accumulated is always a prefix of the final
\* result, the chain's mapT/filterT/removeT applied to s in turn; the call
\* returns exactly that result, and nothing is delivered afterwards.
C20_PrefixOfResult ==
    /\ IsPrefix(out, Expected(Last))
    /\ IsPrefix(hist[Last], Expected(Last))
    /\ Len(rets) >= 1 =>
           /\ rets[1] = Expected(Last)
           /\ hist[Last] = Expected(Last)
           /\ out \in {<< >>, rets[1]}

C20_Witness ==
    /\ main_pc = "drain" /\ Len(rets) = 0 /\ NStages = MaxStages
    /\ Mixed(out) /\ Len(out) < Len(Expected(Last))
    /\ \E k \in 1..NStages : stages[k].kind # "map"

====
